---- MODULE Spec2Model ----
(***************************************************************************)
(* Model of package tls (src/tls/tls.go): the FilesOrContents flag value   *)
(* (String, Set, SetValue) and SortTLSPerEntryPoints, which fans the       *)
(* certificate of every Configuration out to its entry points.             *)
(*                                                                         *)
(* Spec   : SortTLSPerEntryPoints, its callers and the certificate store.  *)
(* SpecFC : the FilesOrContents flag value.                                *)
(***************************************************************************)
EXTENDS Integers, Sequences, FiniteSets, TLC

VARIABLES
    confs,              \* the *Configuration records the configurations slice points to
    defaultEntryPoints, \* argument defaultEntryPoints of the running call
    heap,               \* the allocated certificate maps, by reference
    servingRef,         \* the map the handshake path reads
    callerRef,          \* the map the caller passed (NilRef: nil)
    epConfiguration,    \* the callee's local epConfiguration
    caller,             \* who called: "none", "reload", "direct"
    pc,                 \* position inside / around SortTLSPerEntryPoints
    i,                  \* index of the range loop over configurations
    j,                  \* index of the range loop over conf.EntryPoints
    err,                \* the error SortTLSPerEntryPoints returned
    log,                \* history: the AppendCertificates calls of this run
    confs0,             \* history: confs when the running call started
    subst,              \* history: per record, the defaults first written into it
    r,                  \* the FilesOrContents receiver *r
    last,               \* the last FilesOrContents call: its argument, *r before it, its result
    r2,                 \* a second, empty receiver on which Set(last.str) is called
    base,               \* history: *r after construction or the last SetValue
    args                \* history: the arguments of the successful Set calls since base

tlsVars == <<confs, defaultEntryPoints, heap, servingRef, callerRef,
             epConfiguration, caller, pc, i, j, err, log, confs0, subst>>
fcVars == <<r, last, r2, base, args>>
vars == <<tlsVars, fcVars>>

(***************************************************************************)
(* Bounds                                                                  *)
(***************************************************************************)
MaxConfs == 2
MaxStrLen == 2
MaxSets == 2

(***************************************************************************)
(* Small helpers                                                           *)
(***************************************************************************)
Range(s) == {s[k] : k \in DOMAIN s}

SeqsUpTo(S, n) == UNION {[1..m -> S] : m \in 0..n}

(***************************************************************************)
(* Part 1: SortTLSPerEntryPoints                                           *)
(***************************************************************************)
\* References to certificate maps; nil is 0. At most two maps are live at once
\* (the serving one and the one a call fills).
NilRef == 0
Refs == 1..3
NoErr == "nil"

\* The entry-point lists a Configuration may carry, and the default lists.
EntryPointLists == {<<>>, <<"websecure">>, <<"web", "websecure">>}
DefaultLists == {<<>>, <<"web">>, <<"web", "websecure">>}

\* The certificates: certA carries inline PEM, certB names files on disk,
\* bad is a pair that does not parse.
CertIds == {"certA", "certB", "bad"}

Configuration == [EntryPoints : EntryPointLists, Certificate : CertIds]

\* The server names a parsed certificate answers for.
ServerNames(c) ==
    CASE c = "certA" -> {"a.com", "s.com"}
      [] c = "certB" -> {"s.com"}
      [] OTHER -> {}

\* What reading and parsing a certificate can report: a file may fail to read
\* at any call, malformed PEM always fails to parse.
Outcomes(c) ==
    CASE c = "certA" -> {NoErr}
      [] c = "certB" -> {NoErr, "fs:certB"}
      [] OTHER -> {"parse:bad"}

\* Certificate.AppendCertificates(certs, ep) with the outcome of the parse:
\* on failure the map is untouched, on success certs[ep] is created when
\* absent and every server name of the certificate is (over)written.
AppendCertificates(certs, c, ep, outcome) ==
    IF outcome # NoErr
    THEN [certs |-> certs, err |-> outcome]
    ELSE LET old == IF ep \in DOMAIN certs THEN certs[ep] ELSE <<>>
             new == [n \in DOMAIN old \cup ServerNames(c) |->
                        IF n \in ServerNames(c) THEN c ELSE old[n]]
         IN  [certs |-> [e \in DOMAIN certs \cup {ep} |->
                            IF e = ep THEN new ELSE certs[e]],
              err |-> NoErr]

EmptyStore == <<>>

\* make(map[string]map[string]*tls.Certificate): the lowest free reference.
NewRef == CHOOSE x \in Refs : x \notin DOMAIN heap /\ \A y \in Refs : y < x => y \in DOMAIN heap

\* if epConfiguration == nil { epConfiguration = make(...) }
NilCheck(ref) == IF ref = NilRef THEN NewRef ELSE ref

\* if conf.EntryPoints == nil || len(conf.EntryPoints) == 0 {
\*     conf.EntryPoints = append(conf.EntryPoints, defaultEntryPoints...) }
\* (the debug message of lines 88-95 changes no state).
Substitute_Always(eps, defaults) == defaults
Substitute_Never(eps, defaults) == eps
Substitute(eps, defaults) ==
    IF Len(eps) = 0 THEN eps \o defaults ELSE eps

\* for _, conf := range configurations: the record the k-th iteration visits.
RangeIndex_Reversed(k, n) == n + 1 - k
RangeIndex(k, n) == k

\* if err := ...AppendCertificates(...); err != nil { return err }
ReturnOnError_Swallow(e) == NoErr
ReturnOnError(e) == e

Store == heap[epConfiguration]

TlsIdle ==
    /\ defaultEntryPoints = <<>>
    /\ callerRef = NilRef
    /\ epConfiguration = NilRef
    /\ caller = "none"
    /\ pc = "idle"
    /\ i = 0
    /\ j = 0
    /\ err = NoErr
    /\ log = <<>>
    /\ confs0 = <<>>

TlsInit ==
    /\ confs \in UNION {[1..m -> Configuration] : m \in 1..MaxConfs}
    /\ heap = (1 :> EmptyStore)
    /\ servingRef = 1
    /\ subst = [k \in DOMAIN confs |-> [set |-> FALSE, d |-> <<>>]]
    /\ TlsIdle

NoCall == [op |-> "none", arg |-> <<>>, pre |-> <<>>, str |-> <<>>, err |-> NoErr]
NoReceiver == [set |-> FALSE, list |-> <<>>, err |-> NoErr]

FcIdle ==
    /\ r = <<>>
    /\ last = NoCall
    /\ r2 = NoReceiver
    /\ base = <<>>
    /\ args = <<>>

\* The configuration reload: builds into a fresh map and passes it.
Reload(d) ==
    /\ UNCHANGED fcVars
    /\ pc = "idle"
    /\ pc' = "entry"
    /\ caller' = "reload"
    /\ callerRef' = NewRef
    /\ epConfiguration' = NewRef
    /\ heap' = (NewRef :> EmptyStore) @@ heap
    /\ defaultEntryPoints' = d
    /\ confs0' = confs
    /\ UNCHANGED <<confs, servingRef, i, j, err, log, subst>>

\* A caller that supplies no store: SortTLSPerEntryPoints(confs, nil, d).
CallNil(d) ==
    /\ UNCHANGED fcVars
    /\ pc = "idle"
    /\ pc' = "entry"
    /\ caller' = "direct"
    /\ callerRef' = NilRef
    /\ epConfiguration' = NilRef
    /\ defaultEntryPoints' = d
    /\ confs0' = confs
    /\ UNCHANGED <<confs, heap, servingRef, i, j, err, log, subst>>

\* Lines 83-85.
Enter ==
    /\ UNCHANGED fcVars
    /\ pc = "entry"
    /\ pc' = "conf"
    /\ epConfiguration' = NilCheck(epConfiguration)
    /\ heap' = IF epConfiguration = NilRef THEN (NewRef :> EmptyStore) @@ heap ELSE heap
    /\ i' = 1
    /\ UNCHANGED <<confs, defaultEntryPoints, servingRef, callerRef, caller, j, err,
                   log, confs0, subst>>

\* Lines 86-97: the range loop takes the next record and defaults its list.
NextConf ==
    /\ UNCHANGED fcVars
    /\ pc = "conf"
    /\ i <= Len(confs)
    /\ LET k == RangeIndex(i, Len(confs))
           eps == Substitute(confs[k].EntryPoints, defaultEntryPoints)
       IN  /\ confs' = [confs EXCEPT ![k].EntryPoints = eps]
           /\ subst' = IF Len(confs[k].EntryPoints) = 0 /\ ~subst[k].set
                       THEN [subst EXCEPT ![k] = [set |-> TRUE, d |-> defaultEntryPoints]]
                       ELSE subst
    /\ pc' = "ep"
    /\ j' = 1
    /\ UNCHANGED <<defaultEntryPoints, heap, servingRef, callerRef, epConfiguration,
                   caller, i, err, log, confs0>>

\* Lines 98-102, one iteration: AppendCertificates succeeded.
AppendOk ==
    /\ UNCHANGED fcVars
    /\ pc = "ep"
    /\ LET k == RangeIndex(i, Len(confs)) IN
       /\ j <= Len(confs[k].EntryPoints)
       /\ NoErr \in Outcomes(confs[k].Certificate)
       /\ LET res == AppendCertificates(Store, confs[k].Certificate,
                                        confs[k].EntryPoints[j], NoErr)
          IN  heap' = [heap EXCEPT ![epConfiguration] = res.certs]
       /\ log' = Append(log, [conf |-> k, ep |-> confs[k].EntryPoints[j], err |-> NoErr])
    /\ j' = j + 1
    /\ UNCHANGED <<confs, defaultEntryPoints, servingRef, callerRef, epConfiguration,
                   caller, pc, i, err, confs0, subst>>

\* Lines 98-102, one iteration: AppendCertificates failed, return err.
AppendFail ==
    /\ UNCHANGED fcVars
    /\ pc = "ep"
    /\ LET k == RangeIndex(i, Len(confs)) IN
       /\ j <= Len(confs[k].EntryPoints)
       /\ \E o \in Outcomes(confs[k].Certificate) \ {NoErr} :
            LET res == AppendCertificates(Store, confs[k].Certificate,
                                          confs[k].EntryPoints[j], o)
            IN  /\ heap' = [heap EXCEPT ![epConfiguration] = res.certs]
                /\ log' = Append(log, [conf |-> k, ep |-> confs[k].EntryPoints[j], err |-> o])
                /\ err' = ReturnOnError(res.err)
                /\ pc' = IF ReturnOnError(res.err) # NoErr THEN "returned" ELSE "ep"
                /\ j' = IF ReturnOnError(res.err) # NoErr THEN j ELSE j + 1
    /\ UNCHANGED <<confs, defaultEntryPoints, servingRef, callerRef, epConfiguration,
                   caller, i, confs0, subst>>

\* Line 98: the inner range loop is exhausted, back to line 86.
EndEntryPoints ==
    /\ UNCHANGED fcVars
    /\ pc = "ep"
    /\ j > Len(confs[RangeIndex(i, Len(confs))].EntryPoints)
    /\ pc' = "conf"
    /\ i' = i + 1
    /\ UNCHANGED <<confs, defaultEntryPoints, heap, servingRef, callerRef,
                   epConfiguration, caller, j, err, log, confs0, subst>>

\* Line 104: return nil.
ReturnNil ==
    /\ UNCHANGED fcVars
    /\ pc = "conf"
    /\ i > Len(confs)
    /\ pc' = "returned"
    /\ err' = NoErr
    /\ UNCHANGED <<confs, defaultEntryPoints, heap, servingRef, callerRef,
                   epConfiguration, caller, i, j, log, confs0, subst>>

\* After the call every local is gone; a map nobody references is collected.
AfterCall(keep) ==
    /\ UNCHANGED fcVars
    /\ heap' = [x \in keep |-> heap[x]]
    /\ defaultEntryPoints' = <<>>
    /\ callerRef' = NilRef
    /\ epConfiguration' = NilRef
    /\ caller' = "none"
    /\ pc' = "idle"
    /\ i' = 0
    /\ j' = 0
    /\ err' = NoErr
    /\ log' = <<>>
    /\ confs0' = <<>>
    /\ UNCHANGED <<confs, subst>>

\* The reload succeeded: the new map replaces the one the handshake path reads.
Publish ==
    /\ pc = "returned"
    /\ caller = "reload"
    /\ err = NoErr
    /\ servingRef' = callerRef
    /\ AfterCall({callerRef})

\* The reload failed: the attempted map is dropped, the previous one stays.
Discard ==
    /\ pc = "returned"
    /\ caller = "reload"
    /\ err # NoErr
    /\ servingRef' = servingRef
    /\ AfterCall({servingRef})

\* The caller that passed nil gets the error only.
DirectDone ==
    /\ pc = "returned"
    /\ caller = "direct"
    /\ servingRef' = servingRef
    /\ AfterCall({servingRef})

Init == TlsInit /\ FcIdle

Next ==
    \/ \E d \in DefaultLists : Reload(d)
    \/ \E d \in DefaultLists : CallNil(d)
    \/ Enter
    \/ NextConf
    \/ AppendOk
    \/ AppendFail
    \/ EndEntryPoints
    \/ ReturnNil
    \/ Publish
    \/ Discard
    \/ DirectDone

Spec == Init /\ [][Next]_vars

(***************************************************************************)
(* Properties of SortTLSPerEntryPoints                                     *)
(***************************************************************************)
Running == pc \in {"conf", "ep", "returned"}
Returned == pc = "returned"
Succeeded == Returned /\ err = NoErr

CertOf(k) == confs0[k].Certificate
WasEmpty(k) == Len(confs0[k].EntryPoints) = 0

\* The entry points record k is meant to reach in the running call.
Targets0(k) == IF WasEmpty(k) THEN defaultEntryPoints ELSE confs0[k].EntryPoints

\* The entry points of the AppendCertificates calls made for record k, in order.
EpsOfCalls(k) ==
    LET calls == SelectSeq(log, LAMBDA c : c.conf = k)
    IN  [x \in DOMAIN calls |-> calls[x].ep]

IsPrefix(a, b) == Len(a) <= Len(b) /\ \A x \in DOMAIN a : a[x] = b[x]

\* Every call a complete run makes, in order.
RECURSIVE PlanFrom(_)
PlanFrom(k) ==
    IF k > Len(confs0) THEN <<>>
    ELSE [x \in DOMAIN Targets0(k) |-> [conf |-> k, ep |-> Targets0(k)[x]]] \o PlanFrom(k + 1)

LogCalls == [x \in DOMAIN log |-> [conf |-> log[x].conf, ep |-> log[x].ep]]

\* The map obtained from an empty one by the first n logged calls.
RECURSIVE Replay(_)
Replay(n) ==
    IF n = 0 THEN EmptyStore
    ELSE AppendCertificates(Replay(n - 1), CertOf(log[n].conf), log[n].ep, log[n].err).certs

\* Some server name of certificate c is served by c at entry point ep.
Holds(S, ep, c) ==
    /\ ep \in DOMAIN S
    /\ \E n \in ServerNames(c) : n \in DOMAIN S[ep] /\ S[ep][n] = c

\* Record k2 writes server name n at entry point ep.
Writes(k2, ep, n) == ep \in Range(Targets0(k2)) /\ n \in ServerNames(CertOf(k2))

\* C1 (as stated): after a successful run every record whose entry-point list
\* was empty has its certificate in the store under every default entry point,
\* and was added under no entry point outside the default list.
C1_AsStated ==
    Succeeded =>
        \A k \in DOMAIN confs0 : WasEmpty(k) =>
            /\ \A ep \in Range(defaultEntryPoints) : Holds(Store, ep, CertOf(k))
            /\ Range(EpsOfCalls(k)) \subseteq Range(defaultEntryPoints)

\* C1 (amended): after a successful run, for every record whose list was empty,
\* AppendCertificates was called exactly once per default entry point, in
\* order, and each server name of its certificate is served at each default
\* entry point by that certificate or by the certificate of a later record of
\* the run that writes the same name at the same entry point.
C1_DefaultsFanOut ==
    Succeeded =>
        \A k \in DOMAIN confs0 : WasEmpty(k) =>
            /\ EpsOfCalls(k) = defaultEntryPoints
            /\ \A ep \in Range(defaultEntryPoints) :
                 /\ ep \in DOMAIN Store
                 /\ \A n \in ServerNames(CertOf(k)) :
                      /\ n \in DOMAIN Store[ep]
                      /\ \/ Store[ep][n] = CertOf(k)
                         \/ \E k2 \in DOMAIN confs0 :
                              k2 > k /\ Writes(k2, ep, n) /\ Store[ep][n] = CertOf(k2)

C1_Witness ==
    /\ Succeeded
    /\ Len(defaultEntryPoints) = 2
    /\ \E k \in DOMAIN confs0 :
         /\ WasEmpty(k)
         /\ \A ep \in Range(defaultEntryPoints) : Holds(Store, ep, CertOf(k))
    /\ \E k \in DOMAIN confs0 :
         /\ WasEmpty(k)
         /\ \E ep \in Range(defaultEntryPoints) : ~Holds(Store, ep, CertOf(k))

\* C2: for a record with an explicit non-empty list, AppendCertificates is
\* called only for the entry points of that list (all of them, in order, when
\* the run succeeds), whatever the default list is; and the store has an entry
\* point, and a certificate under it, only where some record of the run
\* targets that entry point with that certificate.
C2_ExplicitOnly ==
    Running =>
        /\ \A k \in DOMAIN confs0 : ~WasEmpty(k) =>
             /\ IsPrefix(EpsOfCalls(k), confs0[k].EntryPoints)
             /\ Succeeded => EpsOfCalls(k) = confs0[k].EntryPoints
        /\ \A ep \in DOMAIN Store :
             /\ \E k \in DOMAIN confs0 : ep \in Range(Targets0(k))
             /\ \A n \in DOMAIN Store[ep] :
                  \E k \in DOMAIN confs0 : Writes(k, ep, n) /\ Store[ep][n] = CertOf(k)

C2_Witness ==
    /\ Succeeded
    /\ defaultEntryPoints = <<"web", "websecure">>
    /\ \A k \in DOMAIN confs0 : confs0[k].EntryPoints = <<"websecure">>
    /\ "websecure" \in DOMAIN Store
    /\ "web" \notin DOMAIN Store

\* C3: a failed AppendCertificates call is the last call of the run: the run
\* has returned, it returned that call's error, every earlier call succeeded,
\* the calls made are the planned calls up to the failing one, and the store
\* holds exactly what the earlier calls inserted.
C3_FailFast ==
    Running =>
        \A x \in DOMAIN log : log[x].err # NoErr =>
            /\ x = Len(log)
            /\ Returned
            /\ err = log[x].err
            /\ \A y \in 1..(x - 1) : log[y].err = NoErr
            /\ IsPrefix(LogCalls, PlanFrom(1))
            /\ Store = Replay(x - 1)

C3_Witness ==
    /\ Returned
    /\ err # NoErr
    /\ Len(log) >= 2
    /\ Len(log) < Len(PlanFrom(1))
    /\ Store # EmptyStore

\* C4: after a successful run, a server name that several records write at
\* the same entry point is served by the certificate of the last of them in
\* input order.
C4_LastWriteWins ==
    Succeeded =>
        \A ep \in {"web", "websecure"} : \A n \in {"a.com", "s.com"} :
            LET W == {k \in DOMAIN confs0 : Writes(k, ep, n)}
            IN  W # {} =>
                  /\ ep \in DOMAIN Store
                  /\ n \in DOMAIN Store[ep]
                  /\ Store[ep][n] = CertOf(CHOOSE k \in W : \A k2 \in W : k2 <= k)

C4_Witness ==
    /\ Succeeded
    /\ \E k1, k2 \in DOMAIN confs0 :
         /\ k1 < k2
         /\ CertOf(k1) # CertOf(k2)
         /\ Writes(k1, "websecure", "s.com")
         /\ Writes(k2, "websecure", "s.com")
         /\ Store["websecure"]["s.com"] = CertOf(k2)

\* C5 (as stated): when the caller passed no store and the run succeeded, the
\* caller holds the populated store.
C5_AsStated ==
    (Succeeded /\ caller = "direct") =>
        \A k \in DOMAIN confs0 : \A ep \in Range(Targets0(k)) :
            \A n \in ServerNames(CertOf(k)) :
                /\ callerRef # NilRef
                /\ ep \in DOMAIN heap[callerRef]
                /\ n \in DOMAIN heap[callerRef][ep]

\* The run made every planned call and none failed.
FullSuccess ==
    /\ \A x \in DOMAIN log : log[x].err = NoErr
    /\ LogCalls = PlanFrom(1)

\* C6: the map the handshake path reads changes only when a reload has
\* returned after making every planned call with none failing, and it then
\* becomes the map that run built; a failed run, and a run in progress, leave
\* it as the last fully successful reload published it.
C6_ServingOnlyFullSuccess ==
    [][(servingRef' # servingRef \/ heap'[servingRef'] # heap[servingRef]) =>
          /\ Returned
          /\ caller = "reload"
          /\ FullSuccess
          /\ heap'[servingRef'] = Replay(Len(log))]_vars

C6_Witness ==
    /\ Returned
    /\ caller = "reload"
    /\ err # NoErr
    /\ Store # EmptyStore
    /\ heap[servingRef] # EmptyStore
    /\ heap[servingRef] # Store

\* The records the running call has already visited.
Visited(k) ==
    \/ pc = "conf" /\ k < i
    \/ pc \in {"ep", "returned"} /\ k <= i

\* C10 (first part): a visited record whose list was empty carries the default
\* list of the running call; every other record carries the list it had when
\* the call started.
C10_WriteBack ==
    Running =>
        \A k \in DOMAIN confs0 :
            IF Visited(k) /\ WasEmpty(k)
            THEN confs[k].EntryPoints = defaultEntryPoints
            ELSE confs[k].EntryPoints = confs0[k].EntryPoints

\* C10 (second part, as stated): a record defaulted by an earlier call, resolved
\* again with a different non-empty default list, is attached to the earlier
\* call's defaults.
C10_AsStated ==
    Succeeded =>
        \A k \in DOMAIN confs0 :
            (subst[k].set /\ subst[k].d # defaultEntryPoints /\ defaultEntryPoints # <<>>)
                => EpsOfCalls(k) = subst[k].d

\* C10 (amended): the first part, and the second part for a record whose
\* first defaulting wrote a non-empty list.
C10_Amended ==
    /\ C10_WriteBack
    /\ Succeeded =>
        \A k \in DOMAIN confs0 :
            (/\ subst[k].set
             /\ subst[k].d # <<>>
             /\ subst[k].d # defaultEntryPoints
             /\ defaultEntryPoints # <<>>)
                => EpsOfCalls(k) = subst[k].d

C10_Witness ==
    /\ Succeeded
    /\ \E k \in DOMAIN confs0 :
         /\ subst[k].set
         /\ subst[k].d = <<"web">>
         /\ defaultEntryPoints = <<"web", "websecure">>
         /\ EpsOfCalls(k) = <<"web">>
         /\ "websecure" \notin DOMAIN Store

(***************************************************************************)
(* Part 2: FilesOrContents                                                 *)
(***************************************************************************)
\* A string is a sequence of characters; "," is the separator.
Chars == {"a", ","}
Strs == SeqsUpTo(Chars, MaxStrLen)

\* The lists SetValue installs; one has an element with a comma in it.
ValueLists == {<<>>, << <<"a">> >>, << <<"a">>, <<"a", "a">> >>,
               << <<"a", ",", "a">> >>, << <<>> >>}

\* strings.Index(s, ","): the first position of the separator, 0 when absent.
IndexComma(s) ==
    IF \E x \in DOMAIN s : s[x] = ","
    THEN CHOOSE x \in DOMAIN s : s[x] = "," /\ \A y \in 1..(x - 1) : s[y] # ","
    ELSE 0

\* strings.Split(value, ","): cut at every separator; the rest is the last piece.
RECURSIVE Split_DropEmpty(_)
Split_DropEmpty(s) ==
    LET m == IndexComma(s)
        head == IF m = 0 THEN s ELSE SubSeq(s, 1, m - 1)
        rest == IF m = 0 THEN <<>> ELSE Split_DropEmpty(SubSeq(s, m + 1, Len(s)))
    IN  IF head = <<>> THEN rest ELSE <<head>> \o rest

RECURSIVE Split(_)
Split(s) ==
    LET m == IndexComma(s)
    IN  IF m = 0 THEN <<s>>
        ELSE <<SubSeq(s, 1, m - 1)>> \o Split(SubSeq(s, m + 1, Len(s)))

\* strings.Join(sliceOfString, ",")
RECURSIVE Join(_)
Join(l) ==
    IF Len(l) = 0 THEN <<>>
    ELSE IF Len(l) = 1 THEN l[1]
    ELSE l[1] \o <<",">> \o Join(Tail(l))

\* func (r *FilesOrContents) String() string
String(l) == Join([k \in DOMAIN l |-> l[k]])

FormatError == "bad FilesOrContents format"

\* func (r *FilesOrContents) Set(value string) error
SetOp_Replace(l, value) == [r |-> Split(value), err |-> NoErr]
SetOp(l, value) ==
    LET filesOrContents == Split(value)
    IN  IF Len(filesOrContents) = 0
        THEN [r |-> l, err |-> FormatError]
        ELSE [r |-> l \o filesOrContents, err |-> NoErr]

Set(value) ==
    /\ UNCHANGED tlsVars
    /\ Len(args) < MaxSets
    /\ r' = SetOp(r, value).r
    /\ last' = [op |-> "Set", arg |-> value, pre |-> r, str |-> <<>>,
                err |-> SetOp(r, value).err]
    /\ args' = IF SetOp(r, value).err = NoErr THEN Append(args, value) ELSE args
    /\ r2' = NoReceiver
    /\ UNCHANGED base

\* func (r *FilesOrContents) SetValue(val interface{})
SetValue(val) ==
    /\ UNCHANGED tlsVars
    /\ r' = val
    /\ base' = val
    /\ args' = <<>>
    /\ last' = [NoCall EXCEPT !.op = "SetValue", !.pre = r]
    /\ r2' = NoReceiver

\* func (r *FilesOrContents) String() string
StringCall ==
    /\ UNCHANGED tlsVars
    /\ last' = [NoCall EXCEPT !.op = "String", !.pre = r, !.str = String(r)]
    /\ r2' = NoReceiver
    /\ UNCHANGED <<r, base, args>>

\* func (r *FilesOrContents) Get() interface{}
Get ==
    /\ UNCHANGED tlsVars
    /\ last' = [NoCall EXCEPT !.op = "Get", !.pre = r]
    /\ r2' = NoReceiver
    /\ UNCHANGED <<r, base, args>>

\* Set(r.String()) on a new, empty FilesOrContents.
Reparse ==
    /\ UNCHANGED tlsVars
    /\ last.op = "String"
    /\ ~r2.set
    /\ r2' = [set |-> TRUE, list |-> SetOp(<<>>, last.str).r,
              err |-> SetOp(<<>>, last.str).err]
    /\ UNCHANGED <<r, last, base, args>>

InitFC ==
    /\ confs = <<>>
    /\ heap = (1 :> EmptyStore)
    /\ servingRef = 1
    /\ subst = <<>>
    /\ TlsIdle
    /\ FcIdle

NextFC ==
    \/ \E value \in Strs : Set(value)
    \/ \E val \in ValueLists : SetValue(val)
    \/ StringCall
    \/ Get
    \/ Reparse

SpecFC == InitFC /\ [][NextFC]_vars

(***************************************************************************)
(* Properties of FilesOrContents                                           *)
(***************************************************************************)
NoComma(s) == \A x \in DOMAIN s : s[x] # ","
NoCommaList(l) == \A x \in DOMAIN l : NoComma(l[x])
CountCommas(s) == Cardinality({x \in DOMAIN s : s[x] = ","})

RECURSIVE SumPieces(_)
SumPieces(a) == IF a = <<>> THEN 0 ELSE CountCommas(Head(a)) + 1 + SumPieces(Tail(a))

\* C7 (as stated): Set of the empty string fails with the format error and
\* leaves the list as it was.
C7_AsStated ==
    (last.op = "Set" /\ last.arg = <<>>) =>
        /\ last.err = FormatError
        /\ r = last.pre

\* C8: a Set call keeps the list it found as a prefix, and after any sequence
\* of successful Set calls the list is its contents at construction or at the
\* last SetValue, followed by the comma-free pieces of the arguments in call
\* order: one piece more than each argument has commas, and joined by commas
\* they spell the arguments joined by commas.
C8_SetIsAdditive ==
    /\ last.op = "Set" => IsPrefix(last.pre, r)
    /\ IsPrefix(base, r)
    /\ LET added == SubSeq(r, Len(base) + 1, Len(r))
       IN  /\ Len(added) = SumPieces(args)
           /\ NoCommaList(added)
           /\ String(added) = Join(args)

C8_Witness ==
    /\ last.op = "Set"
    /\ Len(args) = 2
    /\ Len(base) = 2
    /\ CountCommas(args[1]) = 1
    /\ Len(r) >= 5

====
